---- MODULE Spec2Model ----
(***************************************************************************)
(* The chat server and its ChatRoom client: the Hono handlers join-room,   *)
(* leave-room, active-users, send-message and messages, with initializeRooms,*)
(* signup, the uploads and the catalog and profile reads, over a           *)
(* whole-value key-value store; the requests of several callers are         *)
(* interleaved at the handlers' await points.                              *)
(***************************************************************************)
EXTENDS Integers, Sequences, FiniteSets, TLC

(* ---------------------------------------------------------------- bounds *)
NumProcs == 2
MaxReqs == 2
MaxTicks == 2

(* ------------------------------------------------------ program constants *)
FiveMinutes == 5 * 60 * 1000
MaxMessages == 100

(* ------------------------------------------------------------ input sets *)
Undefined == "undefined"
Null == "null"
Rooms == {"general", "random"}
UserIds == {"u1", "u2"}
UsernameOf == [u \in UserIds |-> IF u = "u1" THEN "alice" ELSE "bob"]
Procs == 1..NumProcs
Deltas == {1, FiveMinutes - 1}

\* JavaScript truthiness of the values a request field carries here
Falsy(v) == v \in {Undefined, Null, ""}

\* `room:${roomId}:users` and `room:${roomId}:messages`
UsersKey(roomId) == <<"room", roomId, "users">>

MessagesKeyShared(roomId) == <<"room", "messages">>

MessagesKey(roomId) == <<"room", roomId, "messages">>

NoArgs == [roomId |-> Undefined, userId |-> Undefined, username |-> Undefined,
           message |-> Undefined, imageUrl |-> Undefined,
           email |-> Undefined, file |-> Undefined]

NoMessage == [id |-> <<0, Undefined>>, userId |-> Undefined, username |-> Undefined,
              message |-> Undefined, imageUrl |-> Undefined, timestamp |-> 0]

\* a handler invocation: its request body and its local variables
Idle == [kind |-> "none", pc |-> "idle", args |-> NoArgs, loaded |-> <<>>,
         base |-> 0, out |-> <<>>, newMessage |-> NoMessage, t |-> 0]

NoResponse == [kind |-> "none", status |-> 0, args |-> NoArgs,
               body |-> <<>>, loaded |-> <<>>, t |-> 0]

\* the log a fresh room holds after n sequential sends of u1, one per millisecond
StoredLog(n) ==
    [i \in 1..n |-> [id |-> <<i, "u1">>, userId |-> "u1", username |-> "alice",
                     message |-> "hi", imageUrl |-> Undefined, timestamp |-> i]]

VARIABLES
    kv,         \* the key-value store: the keys it holds and their values
    now,        \* Date.now()
    req,        \* the handler invocations
    last,       \* the response most recently sent
    reqCount, ticks,
    serialU,    \* no two requests on room:{r}:users have overlapped so far
    serialM,    \* no two requests on room:{r}:messages have overlapped so far
    lastOp,     \* last successful join/leave per (room, user)
    lastAnn,    \* Date.now() of the last successful join per (room, user)
    anns,       \* number of successful joins per (room, user)
    seed,       \* length of the log the store held for each room at the start
    verM,       \* number of writes of room:{r}:messages so far
    returned,   \* messages returned by successful send-message since the start
    chat,       \* each user's ChatRoom component: "closed", "open" or "leaving"
    ui,         \* the state of the ChatRoom of u1: draft, sendMessage, display
    net         \* the responses on their way to the ChatRoom of u1

vars == <<kv, now, req, last, reqCount, ticks,
          serialU, serialM, lastOp, lastAnn, anns, seed, verM, returned,
          chat, ui, net>>

ghostU == <<serialU, lastOp, lastAnn, anns>>
ghostM == <<serialM, seed, verM, returned>>

(* ------------------------------------------------- the key-value store *)
\* (await kv.get(key)) || []
GetOrEmpty(key) == IF key \in DOMAIN kv THEN kv[key] ELSE <<>>

\* await kv.set(key, value): the whole value is replaced
KvSet(key, value) == kv' = (key :> value) @@ kv

users == [r \in Rooms |-> GetOrEmpty(UsersKey(r))]
msgs == [r \in Rooms |-> GetOrEmpty(MessagesKey(r))]

(* ------------------------------------------------------- initial states *)
\* the handlers start with no request in flight, over whatever the durable
\* store already holds
InitHandlers ==
    /\ req = [p \in Procs |-> Idle]
    /\ last = NoResponse
    /\ reqCount = 0 /\ ticks = 0
    /\ serialU = [r \in Rooms |-> TRUE]
    /\ serialM = [r \in Rooms |-> TRUE]
    /\ returned = [r \in Rooms |-> <<>>]

\* the useState values of a ChatRoom that has just mounted: nothing displayed,
\* an empty draft, no image selected, not sending; pc, imageUrl, slot and status
\* are the position and the locals of its sendMessage call, and shown numbers
\* the response whose list is displayed
FreshChatRoom ==
    [messages |-> <<>>, inputMessage |-> "", selectedImage |-> Null,
     sending |-> FALSE, pc |-> "idle", imageUrl |-> Null, slot |-> 0,
     status |-> 0, shown |-> 0]

\* no ChatRoom is mounted, or the one of u1 is
InitClients(open) ==
    /\ chat = [u \in UserIds |-> IF open /\ u = "u1" THEN "open" ELSE "closed"]
    /\ ui = FreshChatRoom
    /\ net = {}

\* no membership is stored, or the one left by u1 announcing in "general" at 0
InitUsers(announced) ==
    /\ lastOp = [r \in Rooms |-> [u \in UserIds |->
                  IF announced /\ r = "general" /\ u = "u1" THEN "join" ELSE "none"]]
    /\ lastAnn = [r \in Rooms |-> [u \in UserIds |-> 0]]
    /\ anns = [r \in Rooms |-> [u \in UserIds |->
                  IF announced /\ r = "general" /\ u = "u1" THEN 1 ELSE 0]]

\* no message is stored, or the log left in "general" by n sequential sends,
\* the last of them a millisecond ago
InitMessages(n) ==
    /\ seed = [r \in Rooms |-> IF r = "general" THEN n ELSE 0]
    /\ verM = [r \in Rooms |-> IF r = "general" THEN n ELSE 0]
    /\ now = IF n = 0 THEN 0 ELSE n + 1

InitStore(announced, n) ==
    kv = [k \in (IF announced THEN {UsersKey("general")} ELSE {})
                   \cup (IF n > 0 THEN {MessagesKey("general")} ELSE {}) |->
            IF k = UsersKey("general")
            THEN <<[userId |-> "u1", username |-> "alice", joinedAt |-> 0]>>
            ELSE StoredLog(n)]

(* ------------------------------------------------------------- helpers *)
InFlightU(p, r) ==
    \E q \in Procs \ {p} :
        req[q].kind \in {"join", "leave", "active"} /\ req[q].args.roomId = r

InFlightM(p, r) ==
    \E q \in Procs \ {p} :
        req[q].kind \in {"send", "messages"} /\ req[q].args.roomId = r

\* c.json(...): the response the caller receives
Respond(kind, status, args, body, loaded, t) ==
    last' = [kind |-> kind, status |-> status, args |-> args,
             body |-> body, loaded |-> loaded, t |-> t]

\* a request arrives; the invocations are interchangeable, so it takes the
\* first free one
Accept(p) ==
    /\ reqCount < MaxReqs
    /\ req[p].pc = "idle"
    /\ \A q \in Procs : q < p => req[q].pc # "idle"
    /\ reqCount' = reqCount + 1

\* kv.get throws: the catch block answers 500
GetFails(kind, a) == Respond(kind, 500, a, <<>>, <<>>, 0)

RemoveUserKeepsOnly(list, userId) == SelectSeq(list, LAMBDA u : u.userId = userId)

\* users.filter(u => u.userId !== userId)
RemoveUser(list, userId) == SelectSeq(list, LAMBDA u : u.userId # userId)

ActiveUsersInclusive(list, fiveMinutesAgo) ==
    SelectSeq(list, LAMBDA u : u.joinedAt >= fiveMinutesAgo)

\* users.filter(u => u.joinedAt > fiveMinutesAgo)
ActiveUsers(list, fiveMinutesAgo) ==
    SelectSeq(list, LAMBDA u : u.joinedAt > fiveMinutesAgo)

KeepFirst(list) ==
    IF Len(list) > MaxMessages THEN SubSeq(list, 1, MaxMessages) ELSE list

KeepLastOneMore(list) ==
    IF Len(list) > MaxMessages + 1
    THEN SubSeq(list, Len(list) - MaxMessages + 1, Len(list))
    ELSE list

KeepLastOneLess(list) ==
    IF Len(list) > MaxMessages
    THEN SubSeq(list, Len(list) - MaxMessages + 2, Len(list))
    ELSE list

\* if (messages.length > 100) messages.splice(0, messages.length - 100)
KeepLast(list) ==
    IF Len(list) > MaxMessages
    THEN SubSeq(list, Len(list) - MaxMessages + 1, Len(list))
    ELSE list

\* imageUrl || undefined
ImageUrlField(imageUrl) == IF Falsy(imageUrl) THEN Undefined ELSE imageUrl

(* ------------------------------------------------------------ the clock *)
Tick ==
    /\ ticks < MaxTicks
    /\ \E d \in Deltas : now' = now + d
    /\ ticks' = ticks + 1
    /\ UNCHANGED <<kv, req, last, reqCount, ghostU, ghostM, chat, ui, net>>

\* a millisecond passes
TickMs ==
    /\ ticks < MaxTicks
    /\ now' = now + 1
    /\ ticks' = ticks + 1
    /\ UNCHANGED <<kv, req, last, reqCount, ghostU, ghostM, chat, ui, net>>

(* ------------------------------------------------- POST /join-room *)
\* if (!roomId || !username || !userId) is not taken
JoinValid(a) == ~(Falsy(a.roomId) \/ Falsy(a.username) \/ Falsy(a.userId))

\* the request bodies tried for the rooms rs: each user announces under their
\* own name, and one of the three fields may be missing or empty
JoinArgs(rs) ==
    { [NoArgs EXCEPT !.roomId = IF miss = "roomId" THEN "" ELSE r,
                     !.userId = IF miss = "userId" THEN Undefined ELSE u,
                     !.username = IF miss = "username" THEN "" ELSE UsernameOf[u]] :
        r \in rs, u \in UserIds, miss \in {"none", "roomId", "userId", "username"} }

JoinedUsersUnfiltered(list, userId, username, t) ==
    Append(list, [userId |-> userId, username |-> username, joinedAt |-> t])

\* filteredUsers after the push of newUser
JoinedUsers(list, userId, username, t) ==
    Append(RemoveUser(list, userId),
           [userId |-> userId, username |-> username, joinedAt |-> t])

\* the handler for the request body a: validation, then `await kv.get(usersKey)`
\* (getOk: the get does not throw)
JoinBegin(p, a, getOk) ==
    /\ Accept(p)
    /\ IF ~JoinValid(a)
          THEN /\ getOk
               /\ Respond("join", 400, a, <<>>, <<>>, 0)
               /\ UNCHANGED <<req, serialU>>
          ELSE IF getOk
          THEN /\ req' = [req EXCEPT ![p] = [Idle EXCEPT !.kind = "join",
                              !.pc = "compute", !.args = a,
                              !.loaded = GetOrEmpty(UsersKey(a.roomId))]]
               /\ serialU' = [serialU EXCEPT ![a.roomId] =
                                 @ /\ ~InFlightU(p, a.roomId)]
               /\ UNCHANGED last
          ELSE /\ GetFails("join", a)
               /\ UNCHANGED <<req, serialU>>
    /\ UNCHANGED <<kv, now, ticks, lastOp, lastAnn, anns, ghostM>>

\* a join-room request of any caller arrives
JoinStart(p, rs) ==
    /\ \E a \in JoinArgs(rs), getOk \in BOOLEAN : JoinBegin(p, a, getOk)
    /\ UNCHANGED <<chat, ui, net>>

\* filter, Date.now(), push; `await kv.set(usersKey, filteredUsers)` is issued
JoinCompute(p) ==
    /\ req[p].kind = "join" /\ req[p].pc = "compute"
    /\ req' = [req EXCEPT ![p].pc = "set", ![p].t = now,
                 ![p].out = JoinedUsers(req[p].loaded, req[p].args.userId,
                                        req[p].args.username, now)]
    /\ UNCHANGED <<kv, now, last, reqCount, ticks, ghostU, ghostM, chat, ui, net>>

JoinSetMerging(p) ==
    /\ req[p].kind = "join" /\ req[p].pc = "set"
    /\ KvSet(UsersKey(req[p].args.roomId),
             JoinedUsers(GetOrEmpty(UsersKey(req[p].args.roomId)),
                         req[p].args.userId, req[p].args.username, req[p].t))
    /\ Respond("join", 200, req[p].args, <<>>, req[p].loaded, req[p].t)
    /\ lastOp' = [lastOp EXCEPT ![req[p].args.roomId][req[p].args.userId] = "join"]
    /\ lastAnn' = [lastAnn EXCEPT ![req[p].args.roomId][req[p].args.userId] = req[p].t]
    /\ anns' = [anns EXCEPT ![req[p].args.roomId][req[p].args.userId] = @ + 1]
    /\ req' = [req EXCEPT ![p] = Idle]
    /\ UNCHANGED <<now, reqCount, ticks, serialU, ghostM, chat, ui, net>>

\* kv.set takes effect and the handler answers { success: true }
JoinSet(p) ==
    /\ req[p].kind = "join" /\ req[p].pc = "set"
    /\ KvSet(UsersKey(req[p].args.roomId), req[p].out)
    /\ Respond("join", 200, req[p].args, <<>>, req[p].loaded, req[p].t)
    /\ lastOp' = [lastOp EXCEPT ![req[p].args.roomId][req[p].args.userId] = "join"]
    /\ lastAnn' = [lastAnn EXCEPT ![req[p].args.roomId][req[p].args.userId] = req[p].t]
    /\ anns' = [anns EXCEPT ![req[p].args.roomId][req[p].args.userId] = @ + 1]
    /\ req' = [req EXCEPT ![p] = Idle]
    /\ UNCHANGED <<now, reqCount, ticks, serialU, ghostM, chat, ui, net>>

(* ------------------------------------------------ POST /leave-room *)
\* if (!roomId || !userId) is not taken
LeaveValid(a) == ~(Falsy(a.roomId) \/ Falsy(a.userId))

LeaveArgs(rs) ==
    { [NoArgs EXCEPT !.roomId = IF miss = "roomId" THEN "" ELSE r,
                     !.userId = IF miss = "userId" THEN Undefined ELSE u] :
        r \in rs, u \in UserIds, miss \in {"none", "roomId", "userId"} }

\* the handler for the request body a: validation, `await kv.get(usersKey)`,
\* filter; kv.set is issued
LeaveBegin(p, a, getOk) ==
    /\ Accept(p)
    /\ IF ~LeaveValid(a)
          THEN /\ getOk
               /\ Respond("leave", 400, a, <<>>, <<>>, 0)
               /\ UNCHANGED <<req, serialU>>
          ELSE IF getOk
          THEN /\ req' = [req EXCEPT ![p] = [Idle EXCEPT !.kind = "leave",
                              !.pc = "set", !.args = a,
                              !.loaded = GetOrEmpty(UsersKey(a.roomId)),
                              !.out = RemoveUser(GetOrEmpty(UsersKey(a.roomId)),
                                                 a.userId)]]
               /\ serialU' = [serialU EXCEPT ![a.roomId] =
                                 @ /\ ~InFlightU(p, a.roomId)]
               /\ UNCHANGED last
          ELSE /\ GetFails("leave", a)
               /\ UNCHANGED <<req, serialU>>
    /\ UNCHANGED <<kv, now, ticks, lastOp, lastAnn, anns, ghostM>>

\* a leave-room request of any caller arrives
LeaveStart(p, rs) ==
    /\ \E a \in LeaveArgs(rs), getOk \in BOOLEAN : LeaveBegin(p, a, getOk)
    /\ UNCHANGED <<chat, ui, net>>

\* kv.set takes effect and the handler answers { success: true }
LeaveSet(p) ==
    /\ req[p].kind = "leave" /\ req[p].pc = "set"
    /\ KvSet(UsersKey(req[p].args.roomId), req[p].out)
    /\ Respond("leave", 200, req[p].args, <<>>, req[p].loaded, 0)
    /\ lastOp' = [lastOp EXCEPT ![req[p].args.roomId][req[p].args.userId] = "leave"]
    /\ req' = [req EXCEPT ![p] = Idle]
    /\ UNCHANGED <<now, reqCount, ticks, serialU, lastAnn, anns, ghostM, chat, ui, net>>

(* --------------------------------------- GET /active-users/:roomId *)
\* `await kv.get(usersKey)`; a path parameter is never empty
ActiveStart(p, rs) ==
    /\ Accept(p)
    /\ \E r \in rs, getOk \in BOOLEAN :
          IF getOk
          THEN /\ req' = [req EXCEPT ![p] = [Idle EXCEPT !.kind = "active",
                              !.pc = "compute",
                              !.args = [NoArgs EXCEPT !.roomId = r],
                              !.loaded = GetOrEmpty(UsersKey(r))]]
               /\ serialU' = [serialU EXCEPT ![r] = @ /\ ~InFlightU(p, r)]
               /\ UNCHANGED last
          ELSE /\ GetFails("active", [NoArgs EXCEPT !.roomId = r])
               /\ UNCHANGED <<req, serialU>>
    /\ UNCHANGED <<kv, now, ticks, lastOp, lastAnn, anns, ghostM, chat, ui, net>>

ActiveComputeAlwaysWrites(p) ==
    /\ req[p].kind = "active" /\ req[p].pc = "compute"
    /\ req' = [req EXCEPT ![p].pc = "set", ![p].t = now,
                 ![p].out = ActiveUsers(req[p].loaded, now - FiveMinutes)]
    /\ UNCHANGED <<kv, now, last, reqCount, ticks, ghostU, ghostM, chat, ui, net>>

\* Date.now(), filter; the handler answers at once, or issues the eviction write
ActiveCompute(p) ==
    /\ req[p].kind = "active" /\ req[p].pc = "compute"
    /\ LET activeUsers == ActiveUsers(req[p].loaded, now - FiveMinutes) IN
          IF Len(activeUsers) # Len(req[p].loaded)
          THEN /\ req' = [req EXCEPT ![p].pc = "set", ![p].t = now,
                                      ![p].out = activeUsers]
               /\ UNCHANGED last
          ELSE /\ Respond("active", 200, req[p].args, activeUsers,
                          req[p].loaded, now)
               /\ req' = [req EXCEPT ![p] = Idle]
    /\ UNCHANGED <<kv, now, reqCount, ticks, ghostU, ghostM, chat, ui, net>>

ActiveSetClearing(p) ==
    /\ req[p].kind = "active" /\ req[p].pc = "set"
    /\ KvSet(UsersKey(req[p].args.roomId), <<>>)
    /\ Respond("active", 200, req[p].args, req[p].out, req[p].loaded, req[p].t)
    /\ req' = [req EXCEPT ![p] = Idle]
    /\ UNCHANGED <<now, reqCount, ticks, ghostU, ghostM, chat, ui, net>>

\* the eviction write takes effect and the handler answers { users: activeUsers }
ActiveSet(p) ==
    /\ req[p].kind = "active" /\ req[p].pc = "set"
    /\ KvSet(UsersKey(req[p].args.roomId), req[p].out)
    /\ Respond("active", 200, req[p].args, req[p].out, req[p].loaded, req[p].t)
    /\ req' = [req EXCEPT ![p] = Idle]
    /\ UNCHANGED <<now, reqCount, ticks, ghostU, ghostM, chat, ui, net>>

(* ------------------------------------------- key-value store failures *)
\* kv.set throws: the catch block answers 500 and nothing is written
KvSetThrows(p) ==
    /\ req[p].pc = "set"
    /\ Respond(req[p].kind, 500, req[p].args, <<>>, <<>>, req[p].t)
    /\ req' = [req EXCEPT ![p] = Idle]
    /\ UNCHANGED <<kv, now, reqCount, ticks, ghostU, ghostM>>

KvSetFailIgnored(p) ==
    /\ req[p].pc = "set"
    /\ Respond(req[p].kind, 200, req[p].args, req[p].out, <<>>, req[p].t)
    /\ req' = [req EXCEPT ![p] = Idle]
    /\ UNCHANGED <<kv, now, reqCount, ticks, ghostU, ghostM, chat, ui, net>>

\* kv.set throws in the request of any caller
KvSetFail(p) == KvSetThrows(p) /\ UNCHANGED <<chat, ui, net>>

(* ----------------------------------------------- POST /send-message *)
SendValidTextOrImage(a) ==
    ~(Falsy(a.roomId) \/ Falsy(a.username) \/ Falsy(a.userId)
        \/ (Falsy(a.message) /\ Falsy(a.imageUrl)))

\* if (!roomId || !username || !userId || !message) is not taken
SendValid(a) ==
    ~(Falsy(a.roomId) \/ Falsy(a.username) \/ Falsy(a.userId) \/ Falsy(a.message))

\* the request bodies tried for the rooms rs: a text, an image, both or
\* neither, and one of the three identifiers may be missing or empty
SendArgs(rs) ==
    { [roomId |-> IF miss = "roomId" THEN "" ELSE r,
       userId |-> IF miss = "userId" THEN Undefined ELSE u,
       username |-> IF miss = "username" THEN "" ELSE UsernameOf[u],
       message |-> m, imageUrl |-> i,
       email |-> Undefined, file |-> Undefined] :
        r \in rs, u \in UserIds, miss \in {"none", "roomId", "userId", "username"},
        m \in {"hi", ""}, i \in {Null, "img"} }

\* newMessage; tId and tStamp are its two readings of Date.now()
NewMessage(a, tId, tStamp) ==
    [id |-> <<tId, a.userId>>, userId |-> a.userId, username |-> a.username,
     message |-> a.message, imageUrl |-> ImageUrlField(a.imageUrl),
     timestamp |-> tStamp]

PushedWithoutImage(list, m) == KeepLast(Append(list, [m EXCEPT !.imageUrl = Undefined]))

\* messages after messages.push(newMessage) and the splice
Pushed(list, m) == KeepLast(Append(list, m))

\* the handler for the request body a: validation, then
\* `await kv.get(messagesKey)` (getOk: the get does not throw)
SendBegin(p, a, getOk) ==
    /\ Accept(p)
    /\ IF ~SendValid(a)
          THEN /\ getOk
               /\ Respond("send", 400, a, <<>>, <<>>, 0)
               /\ UNCHANGED <<req, serialM>>
          ELSE IF getOk
          THEN /\ req' = [req EXCEPT ![p] = [Idle EXCEPT !.kind = "send",
                              !.pc = "compute", !.args = a,
                              !.loaded = GetOrEmpty(MessagesKey(a.roomId)),
                              !.base = verM[a.roomId]]]
               /\ serialM' = [serialM EXCEPT ![a.roomId] =
                                 @ /\ ~InFlightM(p, a.roomId)]
               /\ UNCHANGED last
          ELSE /\ GetFails("send", a)
               /\ UNCHANGED <<req, serialM>>
    /\ UNCHANGED <<kv, now, ticks, ghostU, seed, verM, returned>>

\* a send-message request of any caller arrives
SendStart(p, rs) ==
    /\ \E a \in SendArgs(rs), getOk \in BOOLEAN : SendBegin(p, a, getOk)
    /\ UNCHANGED <<chat, ui, net>>

\* newMessage is built (the clock may advance between its two Date.now()
\* calls) and pushed, the array is cut, and `await kv.set(messagesKey, messages)`
\* is issued; push and splice change the loaded array itself
SendCompute(p) ==
    /\ req[p].kind = "send" /\ req[p].pc = "compute"
    /\ \E d \in {0, 1} :
          /\ d = 1 => ticks < MaxTicks
          /\ now' = now + d
          /\ ticks' = ticks + d
          /\ LET newMessage == NewMessage(req[p].args, now, now + d) IN
             req' = [req EXCEPT ![p].pc = "set", ![p].t = now + d,
                       ![p].newMessage = newMessage,
                       ![p].loaded = <<>>,
                       ![p].out = Pushed(req[p].loaded, newMessage)]
    /\ UNCHANGED <<kv, last, reqCount, ghostU, ghostM, chat, ui, net>>

\* kv.set takes effect and the handler answers
\* { success: true, message: newMessage }
SendStore(p) ==
    /\ req[p].kind = "send" /\ req[p].pc = "set"
    /\ KvSet(MessagesKey(req[p].args.roomId), req[p].out)
    /\ Respond("send", 200, req[p].args, <<req[p].newMessage>>, <<>>, req[p].t)
    /\ verM' = [verM EXCEPT ![req[p].args.roomId] = @ + 1]
    /\ returned' = [returned EXCEPT ![req[p].args.roomId] =
                      Append(@, [m |-> req[p].newMessage, base |-> req[p].base])]
    /\ req' = [req EXCEPT ![p] = Idle]
    /\ UNCHANGED <<now, reqCount, ticks, ghostU, serialM, seed>>

SendSetAppending(p) ==
    /\ req[p].kind = "send" /\ req[p].pc = "set"
    /\ KvSet(MessagesKey(req[p].args.roomId),
             Pushed(GetOrEmpty(MessagesKey(req[p].args.roomId)), req[p].newMessage))
    /\ Respond("send", 200, req[p].args, <<req[p].newMessage>>, <<>>, req[p].t)
    /\ verM' = [verM EXCEPT ![req[p].args.roomId] = @ + 1]
    /\ returned' = [returned EXCEPT ![req[p].args.roomId] =
                      Append(@, [m |-> req[p].newMessage, base |-> req[p].base])]
    /\ req' = [req EXCEPT ![p] = Idle]
    /\ UNCHANGED <<now, reqCount, ticks, ghostU, serialM, seed, chat, ui, net>>

\* kv.set takes effect in the request of any caller
SendSet(p) == SendStore(p) /\ UNCHANGED <<chat, ui, net>>

(* ------------------------------------------- GET /messages/:roomId *)
\* the handler for the room r: `await kv.get(messagesKey)` and the answer
\* { messages }
MessagesServe(p, r, getOk) ==
    /\ Accept(p)
    /\ IF getOk
          THEN /\ Respond("messages", 200, [NoArgs EXCEPT !.roomId = r],
                          GetOrEmpty(MessagesKey(r)), <<>>, 0)
               /\ serialM' = [serialM EXCEPT ![r] = @ /\ ~InFlightM(p, r)]
          ELSE /\ GetFails("messages", [NoArgs EXCEPT !.roomId = r])
               /\ UNCHANGED serialM
    /\ UNCHANGED <<kv, now, req, ticks, ghostU, seed, verM, returned>>

MessagesTextOnly(p, rs) ==
    /\ Accept(p)
    /\ \E r \in rs, getOk \in BOOLEAN :
          IF getOk
          THEN /\ Respond("messages", 200, [NoArgs EXCEPT !.roomId = r],
                          SelectSeq(GetOrEmpty(MessagesKey(r)),
                                    LAMBDA m : m.imageUrl = Undefined), <<>>, 0)
               /\ serialM' = [serialM EXCEPT ![r] = @ /\ ~InFlightM(p, r)]
          ELSE /\ GetFails("messages", [NoArgs EXCEPT !.roomId = r])
               /\ UNCHANGED serialM
    /\ UNCHANGED <<kv, now, req, ticks, ghostU, seed, verM, returned, chat, ui, net>>

\* a messages request of any caller arrives
Messages(p, rs) ==
    /\ \E r \in rs, getOk \in BOOLEAN : MessagesServe(p, r, getOk)
    /\ UNCHANGED <<chat, ui, net>>

(* ------------------------------------- the catalog, signup and uploads *)
\* 'rooms', `username:${username.toLowerCase()}` and `user:${id}`: the fixed
\* prefixes keep the keys of different kinds apart
RoomsKey == <<"rooms">>

UsernameKeyCatalog(username) == RoomsKey

UsernameKey(username) == <<"username", username>>
UserKey(id) == <<"user", id>>

\* defaultRooms (ids)
DefaultRooms == <<"general", "random", "tech", "gaming">>

\* username.toLowerCase() of the names tried
ToLowerCase(username) == IF username = "Alice" THEN "alice" ELSE username

\* data.user.id of the user created for the n-th request
AuthId(n) == "auth-" \o ToString(n)

\* initializeRooms: `await kv.get('rooms')`; a throwing get ends the startup
InitializeRoomsGet(p) ==
    /\ Accept(p)
    /\ \E getOk \in BOOLEAN :
          IF getOk /\ RoomsKey \notin DOMAIN kv
          THEN req' = [req EXCEPT ![p] = [Idle EXCEPT !.kind = "init",
                          !.pc = "setRooms", !.out = DefaultRooms]]
          ELSE UNCHANGED req
    /\ UNCHANGED <<kv, now, last, ticks, ghostU, ghostM, chat, ui, net>>

\* initializeRooms: `await kv.set('rooms', defaultRooms)`
InitializeRoomsSet(p) ==
    /\ req[p].kind = "init" /\ req[p].pc = "setRooms"
    /\ \E setOk \in BOOLEAN :
          IF setOk THEN KvSet(RoomsKey, req[p].out) ELSE UNCHANGED kv
    /\ req' = [req EXCEPT ![p] = Idle]
    /\ UNCHANGED <<now, last, reqCount, ticks, ghostU, ghostM, chat, ui, net>>

\* GET /rooms
GetRooms(p) ==
    /\ Accept(p)
    /\ \E getOk \in BOOLEAN :
          IF getOk
          THEN Respond("rooms", 200, NoArgs, GetOrEmpty(RoomsKey), <<>>, 0)
          ELSE GetFails("rooms", NoArgs)
    /\ UNCHANGED <<kv, now, req, ticks, ghostU, ghostM, chat, ui, net>>

\* the signup bodies tried: two names that differ in case only, and a body
\* with no username
SignupArgs ==
    { [NoArgs EXCEPT !.username = n, !.email = e] :
        n \in {"Alice", "alice", ""}, e \in {"a@x", "b@x"} }

\* POST /signup: validation and `await kv.get(username key)` (the bodies tried
\* all carry an email and a password)
SignupStart(p) ==
    /\ Accept(p)
    /\ \E a \in SignupArgs, getOk \in BOOLEAN :
          IF Falsy(a.username)
          THEN /\ getOk
               /\ Respond("signup", 400, a, <<>>, <<>>, 0)
               /\ UNCHANGED req
          ELSE IF ~getOk
          THEN /\ GetFails("signup", a)
               /\ UNCHANGED req
          ELSE IF UsernameKey(ToLowerCase(a.username)) \in DOMAIN kv
          THEN /\ Respond("signup", 400, a, <<>>, <<>>, 0)
               /\ UNCHANGED req
          ELSE /\ req' = [req EXCEPT ![p] = [Idle EXCEPT !.kind = "signup",
                              !.pc = "create", !.args = a,
                              !.base = reqCount + 1]]
               /\ UNCHANGED last
    /\ UNCHANGED <<kv, now, ticks, ghostU, ghostM, chat, ui, net>>

\* supabase.auth.admin.createUser: an error is answered 400; otherwise
\* `await kv.set(username key, data.user.id)` is issued
SignupCreate(p) ==
    /\ req[p].kind = "signup" /\ req[p].pc = "create"
    /\ \E created \in BOOLEAN :
          IF created
          THEN /\ req' = [req EXCEPT ![p].pc = "setName"]
               /\ UNCHANGED last
          ELSE /\ Respond("signup", 400, req[p].args, <<>>, <<>>, 0)
               /\ req' = [req EXCEPT ![p] = Idle]
    /\ UNCHANGED <<kv, now, reqCount, ticks, ghostU, ghostM, chat, ui, net>>

\* the username mapping is stored; `await kv.set(user key, profile)` is issued
SignupSetName(p) ==
    /\ req[p].kind = "signup" /\ req[p].pc = "setName"
    /\ \E setOk \in BOOLEAN :
          IF setOk
          THEN /\ KvSet(UsernameKey(ToLowerCase(req[p].args.username)),
                        AuthId(req[p].base))
               /\ req' = [req EXCEPT ![p].pc = "setProfile"]
               /\ UNCHANGED last
          ELSE /\ Respond("signup", 500, req[p].args, <<>>, <<>>, 0)
               /\ req' = [req EXCEPT ![p] = Idle]
               /\ UNCHANGED kv
    /\ UNCHANGED <<now, reqCount, ticks, ghostU, ghostM, chat, ui, net>>

\* the profile is stored and the handler answers { success, userId, username }
SignupSetProfile(p) ==
    /\ req[p].kind = "signup" /\ req[p].pc = "setProfile"
    /\ \E setOk \in BOOLEAN :
          IF setOk
          THEN /\ KvSet(UserKey(AuthId(req[p].base)),
                        [id |-> AuthId(req[p].base),
                         username |-> req[p].args.username,
                         email |-> req[p].args.email,
                         avatarUrl |-> Null, createdAt |-> now])
               /\ Respond("signup", 200, req[p].args,
                          <<[userId |-> AuthId(req[p].base),
                             username |-> req[p].args.username]>>, <<>>, now)
          ELSE /\ Respond("signup", 500, req[p].args, <<>>, <<>>, 0)
               /\ UNCHANGED kv
    /\ req' = [req EXCEPT ![p] = Idle]
    /\ UNCHANGED <<now, reqCount, ticks, ghostU, ghostM, chat, ui, net>>

\* the upload forms tried: the userId of a user signup may have created,
\* with a file or without
UploadArgs ==
    { [NoArgs EXCEPT !.userId = AuthId(n), !.file = f] :
        n \in 1..MaxReqs, f \in {Undefined, "file"} }

\* POST /upload-avatar up to `await kv.get(user key)`: validation, the storage
\* upload and the signed URL (stored: either may fail), then the profile is
\* looked up and, if there is one, its write is issued
UploadAvatarStart(p) ==
    /\ Accept(p)
    /\ \E a \in UploadArgs, stored \in BOOLEAN, getOk \in BOOLEAN :
          IF Falsy(a.file)
          THEN /\ stored /\ getOk
               /\ Respond("avatar", 400, a, <<>>, <<>>, 0)
               /\ UNCHANGED req
          ELSE IF ~stored \/ ~getOk
          THEN /\ stored \/ getOk
               /\ GetFails("avatar", a)
               /\ UNCHANGED req
          ELSE IF UserKey(a.userId) \notin DOMAIN kv
          THEN /\ Respond("avatar", 200, a, <<<<a.userId, now>>>>, <<>>, now)
               /\ UNCHANGED req
          ELSE /\ req' = [req EXCEPT ![p] = [Idle EXCEPT !.kind = "avatar",
                              !.pc = "setAvatar", !.args = a, !.t = now,
                              !.out = [kv[UserKey(a.userId)] EXCEPT
                                          !.avatarUrl = <<a.userId, now>>]]]
               /\ UNCHANGED last
    /\ UNCHANGED <<kv, now, ticks, ghostU, ghostM, chat, ui, net>>

\* `await kv.set(user key, userProfile)` and the answer { success, avatarUrl }
UploadAvatarSet(p) ==
    /\ req[p].kind = "avatar" /\ req[p].pc = "setAvatar"
    /\ \E setOk \in BOOLEAN :
          IF setOk
          THEN /\ KvSet(UserKey(req[p].args.userId), req[p].out)
               /\ Respond("avatar", 200, req[p].args,
                          <<req[p].out.avatarUrl>>, <<>>, req[p].t)
          ELSE /\ Respond("avatar", 500, req[p].args, <<>>, <<>>, 0)
               /\ UNCHANGED kv
    /\ req' = [req EXCEPT ![p] = Idle]
    /\ UNCHANGED <<now, reqCount, ticks, ghostU, ghostM, chat, ui, net>>

\* POST /upload-chat-image for the form a: validation, the storage upload and
\* the signed URL (stored: neither fails); the key-value store is not used
UploadChatImageServe(p, a, stored) ==
    /\ Accept(p)
    /\ IF Falsy(a.file)
          THEN stored /\ Respond("image", 400, a, <<>>, <<>>, 0)
          ELSE IF stored
          THEN Respond("image", 200, a, <<<<a.userId, now>>>>, <<>>, now)
          ELSE GetFails("image", a)
    /\ UNCHANGED <<kv, now, req, ticks, ghostU, ghostM>>

\* an upload-chat-image request of any caller arrives
UploadChatImage(p) ==
    /\ \E a \in UploadArgs, stored \in BOOLEAN : UploadChatImageServe(p, a, stored)
    /\ UNCHANGED <<chat, ui, net>>

\* GET /user/:userId
GetUser(p) ==
    /\ Accept(p)
    /\ \E a \in UploadArgs, getOk \in BOOLEAN :
          IF ~getOk
          THEN GetFails("user", a)
          ELSE IF UserKey(a.userId) \notin DOMAIN kv
          THEN Respond("user", 404, a, <<>>, <<>>, 0)
          ELSE Respond("user", 200, a, <<kv[UserKey(a.userId)]>>, <<>>, 0)
    /\ UNCHANGED <<kv, now, req, ticks, ghostU, ghostM, chat, ui, net>>

(* ------------------------------------------- ChatRoom (the client) *)
\* the room the callers name in the one-room specifications, and the roomId
\* the ChatRoom is given
OneRoom == {"general"}

\* body: JSON.stringify({ roomId, username, userId })
JoinBody(r, u) ==
    [NoArgs EXCEPT !.roomId = r, !.userId = u, !.username = UsernameOf[u]]

\* body: JSON.stringify({ roomId, userId })
LeaveBody(r, u) == [NoArgs EXCEPT !.roomId = r, !.userId = u]

\* the component mounts: the effect calls joinRoom() and starts the polling
\* intervals; joinRoom is not awaited and its outcome is not looked at
ChatRoomMount(p, u) ==
    /\ chat[u] = "closed"
    /\ chat' = [chat EXCEPT ![u] = "open"]
    /\ \E r \in OneRoom, getOk \in BOOLEAN : JoinBegin(p, JoinBody(r, u), getOk)
    /\ UNCHANGED <<ui, net>>

\* a tick of usersInterval in a mounted component: fetchActiveUsers()
ChatRoomPoll(p) ==
    /\ \E u \in UserIds : chat[u] # "closed"
    /\ ActiveStart(p, OneRoom)

\* the Leave button: leaveRoom(), then onLeave() has the parent unmount the
\* component
HandleLeave(p, u) ==
    /\ chat[u] = "open"
    /\ chat' = [chat EXCEPT ![u] = "leaving"]
    /\ \E r \in OneRoom, getOk \in BOOLEAN : LeaveBegin(p, LeaveBody(r, u), getOk)
    /\ UNCHANGED <<ui, net>>

\* the component unmounts: the effect's cleanup clears the intervals and
\* calls leaveRoom()
ChatRoomCleanup(p, u) ==
    /\ chat[u] \in {"open", "leaving"}
    /\ chat' = [chat EXCEPT ![u] = "closed"]
    /\ \E r \in OneRoom, getOk \in BOOLEAN : LeaveBegin(p, LeaveBody(r, u), getOk)
    /\ UNCHANGED <<ui, net>>

(* ------------------------- ChatRoom: the draft, sendMessage, fetchMessages *)
server == <<kv, now, req, last, reqCount, ticks, ghostU, ghostM>>

\* the literal of sendMessage (in the source it starts with a camera emoji)
Placeholder == "Image"

\* the texts a user leaves in the input
Drafts == {"", " ", "hi"}

\* inputMessage.trim() of these texts
Trim(text) == IF text = " " THEN "" ELSE text

\* if ((!inputMessage.trim() && !selectedImage) || sending) return
SendMessageReturnsAtOnce ==
    (Trim(ui.inputMessage) = "" /\ ui.selectedImage = Null) \/ ui.sending

\* message: inputMessage.trim() || <placeholder>
MessageField(text) == IF Trim(text) = "" THEN Placeholder ELSE Trim(text)

\* body: JSON.stringify({ roomId, username, userId, message, imageUrl })
SendMessageBody(r, u, text, imageUrl) ==
    [NoArgs EXCEPT !.roomId = r, !.userId = u, !.username = UsernameOf[u],
                   !.message = MessageField(text), !.imageUrl = imageUrl]

\* a response to a fetchMessages call on its way to the component: n numbers
\* the responses in the order the server sent them
FetchResponse(n, response, for) ==
    [n |-> n, status |-> response.status, messages |-> response.body, for |-> for]

\* onChange of the input (disabled while sending): setInputMessage
SetInputMessage ==
    /\ chat["u1"] = "open" /\ ~ui.sending
    /\ \E text \in Drafts :
          /\ text # ui.inputMessage
          /\ ui' = [ui EXCEPT !.inputMessage = text]
    /\ UNCHANGED <<server, chat, net>>

\* handleImageSelect: setSelectedImage(file)
HandleImageSelect ==
    /\ chat["u1"] = "open" /\ ~ui.sending
    /\ ui.selectedImage = Null
    /\ ui' = [ui EXCEPT !.selectedImage = "file"]
    /\ UNCHANGED <<server, chat, net>>

\* sendMessage with an image selected, up to the answer to uploadImage():
\* setSending(true), the form is posted, and uploadImage returns data.imageUrl
\* (a signed URL), or null when the answer carries an error
SendMessageUpload(p) ==
    /\ chat["u1"] = "open"
    /\ ui.pc = "idle" /\ ~SendMessageReturnsAtOnce
    /\ ui.selectedImage # Null
    /\ \E stored \in BOOLEAN :
          /\ UploadChatImageServe(p, [NoArgs EXCEPT !.userId = "u1",
                                         !.file = ui.selectedImage], stored)
          /\ ui' = [ui EXCEPT !.sending = TRUE, !.pc = "post",
                       !.imageUrl = IF last'.status = 200 THEN "img" ELSE Null]
    /\ UNCHANGED <<chat, net>>

\* sendMessage posts the message (at once when no image is selected) and the
\* request reaches the handler: it is answered at once (a failed validation
\* or kv.get) or is in progress
SendMessagePost(p) ==
    /\ chat["u1"] = "open"
    /\ \/ ui.pc = "post"
       \/ ui.pc = "idle" /\ ~SendMessageReturnsAtOnce /\ ui.selectedImage = Null
    /\ \E r \in OneRoom, getOk \in BOOLEAN :
          SendBegin(p, SendMessageBody(r, "u1", ui.inputMessage, ui.imageUrl), getOk)
    /\ ui' = IF req'[p].pc = "idle"
             THEN [ui EXCEPT !.sending = TRUE, !.pc = "answered",
                             !.status = last'.status]
             ELSE [ui EXCEPT !.sending = TRUE, !.pc = "sent", !.slot = p]
    /\ UNCHANGED <<chat, net>>

\* the fetch of sendMessage throws (no response): the catch block logs, the
\* finally block does setSending(false)
SendMessageFetchThrows ==
    /\ chat["u1"] = "open"
    /\ \/ ui.pc = "post"
       \/ ui.pc = "idle" /\ ~SendMessageReturnsAtOnce /\ ui.selectedImage = Null
    /\ ui' = [ui EXCEPT !.sending = FALSE, !.pc = "idle", !.imageUrl = Null]
    /\ UNCHANGED <<server, chat, net>>

\* the handler finishes the request of sendMessage, with the write or with a
\* throwing kv.set, and its response reaches the component
SendMessageServed(p) ==
    /\ ui.pc = "sent" /\ ui.slot = p
    /\ SendStore(p) \/ KvSetThrows(p)
    /\ ui' = [ui EXCEPT !.pc = "answered", !.status = last'.status, !.slot = 0]
    /\ UNCHANGED <<chat, net>>

\* sendMessage after `await fetch(...)`: setInputMessage(''),
\* setSelectedImage(null), and fetchMessages() is called; response.ok and the
\* status are not looked at
SendMessageAnswered ==
    /\ ui.pc = "answered"
    /\ ui' = [ui EXCEPT !.inputMessage = "", !.selectedImage = Null,
                        !.imageUrl = Null, !.pc = "fetch"]
    /\ UNCHANGED <<server, chat, net>>

\* the messages handler answers the fetchMessages() of sendMessage
SendMessageFetchServed(p) ==
    /\ ui.pc = "fetch"
    /\ \E r \in OneRoom, getOk \in BOOLEAN : MessagesServe(p, r, getOk)
    /\ net' = net \cup {FetchResponse(reqCount', last', "send")}
    /\ ui' = [ui EXCEPT !.pc = "refresh"]
    /\ UNCHANGED chat

\* a tick of messageInterval in the mounted component: fetchMessages(), and
\* the messages handler answers it
ChatRoomPollMessages(p) ==
    /\ chat["u1"] = "open"
    /\ \E r \in OneRoom, getOk \in BOOLEAN : MessagesServe(p, r, getOk)
    /\ net' = net \cup {FetchResponse(reqCount', last', "poll")}
    /\ UNCHANGED <<chat, ui>>

\* a response reaches its fetchMessages call, whichever of those on their way:
\* setMessages(data.messages || []); the call awaited by sendMessage returns
\* and the finally block does setSending(false)
FetchMessagesApplied ==
    /\ \E response \in net :
          /\ net' = net \ {response}
          /\ ui' = IF response.for = "send"
                   THEN [ui EXCEPT !.messages = response.messages,
                                   !.shown = response.n,
                                   !.sending = FALSE, !.pc = "idle"]
                   ELSE [ui EXCEPT !.messages = response.messages,
                                   !.shown = response.n]
    /\ UNCHANGED <<server, chat>>

(* ------------------------------------------------------ specifications *)
NextPresence ==
    \/ Tick
    \/ \E p \in Procs :
          \/ JoinStart(p, OneRoom) \/ JoinCompute(p) \/ JoinSet(p)
          \/ LeaveStart(p, OneRoom) \/ LeaveSet(p)
          \/ ActiveStart(p, OneRoom) \/ ActiveCompute(p) \/ ActiveSet(p)
          \/ KvSetFail(p)

InitPresence ==
    /\ InitHandlers /\ InitClients(FALSE)
    /\ InitMessages(0)
    /\ \E announced \in BOOLEAN : InitUsers(announced) /\ InitStore(announced, 0)

\* the presence tracker: join-room, leave-room and active-users
SpecPresence == InitPresence /\ [][NextPresence]_vars

NextLog ==
    \/ TickMs
    \/ \E p \in Procs :
          \/ SendStart(p, OneRoom) \/ SendCompute(p) \/ SendSet(p)
          \/ Messages(p, OneRoom)
          \/ KvSetFail(p)

InitLog ==
    /\ InitHandlers /\ InitClients(FALSE)
    /\ InitUsers(FALSE)
    /\ InitMessages(0) /\ InitStore(FALSE, 0)

\* the message log of a fresh room: send-message and messages
SpecLog == InitLog /\ [][NextLog]_vars

InitFullLog ==
    /\ InitHandlers /\ InitClients(FALSE)
    /\ InitUsers(FALSE)
    /\ InitMessages(MaxMessages) /\ InitStore(FALSE, MaxMessages)

\* the message log of a room that holds 100 messages
SpecFullLog == InitFullLog /\ [][NextLog]_vars

NextChatRoom ==
    \/ Tick
    \/ \E p \in Procs :
          \/ \E u \in UserIds :
                \/ ChatRoomMount(p, u)
                \/ HandleLeave(p, u)
                \/ ChatRoomCleanup(p, u)
          \/ ChatRoomPoll(p)
          \/ JoinCompute(p) \/ JoinSet(p)
          \/ LeaveSet(p)
          \/ ActiveCompute(p) \/ ActiveSet(p)
          \/ KvSetFail(p)

InitChatRoom ==
    /\ InitHandlers
    /\ InitMessages(0)
    /\ \E open \in BOOLEAN :
          InitClients(open) /\ InitUsers(open) /\ InitStore(open, 0)

\* users open and leave the ChatRoom of one room; the mounted components poll
\* active-users
SpecChatRoom == InitChatRoom /\ [][NextChatRoom]_vars

NextCatalog ==
    \/ Tick
    \/ \E p \in Procs :
          \/ InitializeRoomsGet(p) \/ InitializeRoomsSet(p)
          \/ GetRooms(p)
          \/ SignupStart(p) \/ SignupCreate(p) \/ SignupSetName(p)
          \/ SignupSetProfile(p)
          \/ UploadAvatarStart(p) \/ UploadAvatarSet(p)
          \/ UploadChatImage(p) \/ GetUser(p)
          \/ JoinStart(p, OneRoom) \/ JoinCompute(p) \/ JoinSet(p)
          \/ LeaveStart(p, OneRoom) \/ LeaveSet(p)
          \/ ActiveStart(p, OneRoom) \/ ActiveCompute(p) \/ ActiveSet(p)
          \/ SendStart(p, OneRoom) \/ SendCompute(p) \/ SendSet(p)
          \/ Messages(p, OneRoom)
          \/ KvSetFail(p)

\* the store of a first deployment (no key at all), or one that holds the
\* catalog a startup has written, a member and a message
InitCatalog ==
    /\ InitHandlers /\ InitClients(FALSE)
    /\ \E booted \in BOOLEAN :
          /\ InitUsers(booted)
          /\ InitMessages(IF booted THEN 1 ELSE 0)
          /\ kv = IF booted
                  THEN (RoomsKey :> DefaultRooms)
                         @@ (UsersKey("general") :>
                               <<[userId |-> "u1", username |-> "alice", joinedAt |-> 0]>>)
                         @@ (MessagesKey("general") :> StoredLog(1))
                  ELSE <<>>

NextConversation ==
    \/ TickMs
    \/ SetInputMessage \/ HandleImageSelect
    \/ SendMessageFetchThrows \/ SendMessageAnswered
    \/ FetchMessagesApplied
    \/ \E p \in Procs :
          \/ SendMessageUpload(p) \/ SendMessagePost(p)
          \/ SendCompute(p)
          \/ SendMessageServed(p) \/ SendMessageFetchServed(p)
          \/ ChatRoomPollMessages(p)

\* the ChatRoom of u1 is mounted on an empty room; the response to the
\* fetchMessages() of the mount has been applied or is still on its way
InitConversation ==
    /\ InitHandlers
    /\ InitUsers(TRUE) /\ InitMessages(0) /\ InitStore(TRUE, 0)
    /\ chat = [u \in UserIds |-> IF u = "u1" THEN "open" ELSE "closed"]
    /\ ui = FreshChatRoom
    /\ \E arrived \in BOOLEAN :
          net = IF arrived THEN {}
                ELSE {FetchResponse(0, [NoResponse EXCEPT !.status = 200], "poll")}

\* one ChatRoom: its draft, sendMessage and the fetchMessages polls, over the
\* upload-chat-image, send-message and messages handlers
SpecConversation == InitConversation /\ [][NextConversation]_vars

\* server instances start up and every endpoint is called
SpecCatalog == InitCatalog /\ [][NextCatalog]_vars

NextRooms ==
    \/ Tick
    \/ \E p \in Procs :
          \/ JoinStart(p, Rooms) \/ JoinCompute(p) \/ JoinSet(p)
          \/ LeaveStart(p, Rooms) \/ LeaveSet(p)
          \/ ActiveStart(p, Rooms) \/ ActiveCompute(p) \/ ActiveSet(p)
          \/ SendStart(p, Rooms) \/ SendCompute(p) \/ SendSet(p)
          \/ Messages(p, Rooms)
          \/ KvSetFail(p)

InitRooms ==
    /\ InitHandlers /\ InitClients(FALSE)
    /\ InitUsers(TRUE)
    /\ InitMessages(1) /\ InitStore(TRUE, 1)

\* the five handlers called for two rooms, one of which already holds a
\* member and a message
SpecRooms == InitRooms /\ [][NextRooms]_vars

(* ================================================================ claims *)
EntriesOf(list, u) == SelectSeq(list, LAMBDA e : e.userId = u)

ListedActive == last.kind = "active" /\ last.status = 200

\* C1: in every reachable state, whatever the interleaving of join-room,
\* leave-room and active-users requests, the list stored under
\* room:{roomId}:users holds at most one entry per userId.
C1_OneEntryPerUser ==
    \A r \in Rooms : \A i, j \in 1..Len(users[r]) :
        users[r][i].userId = users[r][j].userId => i = j

\* a join that found its own user already listed, stored after requests on
\* the room overlapped
C1_Witness ==
    /\ last.kind = "join" /\ last.status = 200
    /\ ~serialU[last.args.roomId]
    /\ Len(EntriesOf(last.loaded, last.args.userId)) = 1
    /\ Len(EntriesOf(users[last.args.roomId], last.args.userId)) = 1

\* C2: after a sequence of one or more join-room calls of the same
\* (roomId, userId), made one after the other, an active-users call made after
\* the last of them and less than five minutes after it returns exactly one
\* entry for that user, and its joinedAt is the time of the last join.
C2_ReannounceListedOnce ==
    ListedActive /\ serialU[last.args.roomId] =>
        \A u \in UserIds :
            LET r == last.args.roomId IN
            (lastOp[r][u] = "join" /\ last.t - lastAnn[r][u] < FiveMinutes) =>
                /\ Len(EntriesOf(last.body, u)) = 1
                /\ EntriesOf(last.body, u)[1].joinedAt = lastAnn[r][u]

\* two joins of the same user at increasing times, then the list
C2_Witness ==
    /\ ListedActive /\ serialU[last.args.roomId]
    /\ \E u \in UserIds :
          LET r == last.args.roomId IN
          /\ lastOp[r][u] = "join" /\ anns[r][u] >= 2
          /\ lastAnn[r][u] > 0
          /\ last.t - lastAnn[r][u] < FiveMinutes
          /\ Len(last.body) = 1

\* C3: an active-users call that follows a leave-room of (roomId, userId),
\* the calls made one after the other, never lists userId, whatever joins of
\* that user came before the leave.
C3_WithdrawnNotListed ==
    ListedActive /\ serialU[last.args.roomId] =>
        \A u \in UserIds :
            lastOp[last.args.roomId][u] = "leave" =>
                Len(EntriesOf(last.body, u)) = 0

\* the user had announced less than five minutes before the list was asked
\* for, and left
C3_Witness ==
    /\ ListedActive /\ serialU[last.args.roomId]
    /\ \E u \in UserIds :
          LET r == last.args.roomId IN
          /\ lastOp[r][u] = "leave" /\ anns[r][u] >= 1
          /\ last.t - lastAnn[r][u] < FiveMinutes

\* C4: the list active-users returns at time t is exactly the stored entries
\* with joinedAt > t - 5 minutes, in stored order; an entry exactly five
\* minutes old is excluded and no stale entry is returned.
C4_ExactlyTheFresh ==
    ListedActive =>
        /\ last.body = SelectSeq(last.loaded,
                                 LAMBDA e : last.t - e.joinedAt < FiveMinutes)
        /\ \A i \in 1..Len(last.body) :
               last.t - last.body[i].joinedAt # FiveMinutes

\* the stored list held an entry exactly five minutes old and a fresh one
C4_Witness ==
    /\ ListedActive
    /\ \E i \in 1..Len(last.loaded) :
          last.t - last.loaded[i].joinedAt = FiveMinutes
    /\ Len(last.body) = 1

(* ------------------------------------------------------ the message log *)
\* every message the room's log was given, oldest first: those the store held
\* at the start, then those send-message has returned
History(r) == StoredLog(seed[r]) \o [i \in 1..Len(returned[r]) |-> returned[r][i].m]

Listed == last.kind = "messages" /\ last.status = 200

Contains(list, m) == \E i \in 1..Len(list) : list[i] = m

\* C5: after N > 100 send-message calls to a room, made one after the other,
\* messages returns exactly the last 100 of them in the order sent and none
\* of the first N - 100; after 101 calls to a fresh room the first message is
\* absent and the second one is the first element.
C5_LastHundredInOrder ==
    LET r == last.args.roomId
        n == Len(History(r))
    IN  Listed /\ serialM[r] /\ n > MaxMessages =>
            /\ last.body = SubSeq(History(r), n - MaxMessages + 1, n)
            /\ \A i \in 1..(n - MaxMessages) : ~Contains(last.body, History(r)[i])
            /\ n = MaxMessages + 1 =>
                   ~Contains(last.body, History(r)[1]) /\ last.body[1] = History(r)[2]

\* the list asked for after the 101st send to the room
C5_Witness ==
    LET r == last.args.roomId IN
    /\ Listed /\ serialM[r]
    /\ Len(History(r)) = MaxMessages + 1
    /\ Len(returned[r]) >= 1
    /\ Len(last.body) = MaxMessages

\* C6: in every reachable state, whatever the interleaving of send-message
\* requests, the list stored under room:{roomId}:messages has at most 100
\* entries.
C6_AtMostHundredStored == \A r \in Rooms : Len(msgs[r]) <= MaxMessages

\* two overlapping sends to a room whose log was full have both been stored
C6_Witness ==
    \E r \in Rooms :
        /\ ~serialM[r]
        /\ Len(returned[r]) >= 2
        /\ Len(msgs[r]) = MaxMessages

\* C7: when send-message has returned success with a message m, a later
\* messages call of the room (the calls made one after the other), made while
\* fewer than 100 messages have been sent after m, returns an entry equal to m
\* in id, userId, username, message, imageUrl and timestamp.
C7_ReturnedIsListed ==
    LET r == last.args.roomId IN
    Listed /\ serialM[r] =>
        \A i \in 1..Len(returned[r]) :
            Len(returned[r]) - i < MaxMessages =>
                \E j \in 1..Len(last.body) :
                    /\ last.body[j].id = returned[r][i].m.id
                    /\ last.body[j].userId = returned[r][i].m.userId
                    /\ last.body[j].username = returned[r][i].m.username
                    /\ last.body[j].message = returned[r][i].m.message
                    /\ last.body[j].imageUrl = returned[r][i].m.imageUrl
                    /\ last.body[j].timestamp = returned[r][i].m.timestamp

\* a message with an image was returned and then listed
C7_Witness ==
    LET r == last.args.roomId IN
    /\ Listed /\ serialM[r]
    /\ Len(returned[r]) = 1
    /\ returned[r][1].m.imageUrl = "img"
    /\ Contains(last.body, returned[r][1].m)

\* C8: within a room's stored log no two messages have the same id.
C8_UniqueIds ==
    \A r \in Rooms : \A i, j \in 1..Len(msgs[r]) :
        msgs[r][i].id = msgs[r][j].id => i = j

\* C9 as stated: send-message answers 400 only when roomId, userId or username
\* is missing or both message and imageUrl are missing, and accepts otherwise.
C9_AcceptsTextOrImage ==
    last.kind = "send" =>
        (last.status = 400 <=>
            (Falsy(last.args.roomId) \/ Falsy(last.args.userId)
                \/ Falsy(last.args.username)
                \/ (Falsy(last.args.message) /\ Falsy(last.args.imageUrl))))

\* C9 amended: send-message answers 400 exactly when roomId, userId, username
\* or message is missing or empty, whether or not an imageUrl is given; every
\* request it takes further carries all four.
C9_AcceptsOnlyWithText ==
    /\ last.kind = "send" =>
           (last.status = 400 <=>
               (Falsy(last.args.roomId) \/ Falsy(last.args.userId)
                   \/ Falsy(last.args.username) \/ Falsy(last.args.message)))
    /\ \A p \in Procs : req[p].kind = "send" =>
           ~(Falsy(req[p].args.roomId) \/ Falsy(req[p].args.userId)
               \/ Falsy(req[p].args.username) \/ Falsy(req[p].args.message))

\* a request with the three identifiers and an image but no text was refused
C9_Witness ==
    /\ last.kind = "send" /\ last.status = 400
    /\ ~Falsy(last.args.roomId) /\ ~Falsy(last.args.userId)
    /\ ~Falsy(last.args.username)
    /\ Falsy(last.args.message) /\ last.args.imageUrl = "img"

\* C10: two send-message requests to a room that both read the same stored
\* list and both return success leave a list holding one of their two
\* messages only: it is the list read with the later writer's message at its
\* end, one entry longer at most than the list both read.
C10_LostUpdate ==
    \A r \in Rooms :
        LET k == Len(returned[r]) IN
        (k >= 2 /\ returned[r][k].base = returned[r][k - 1].base) =>
            /\ Len(msgs[r]) <= returned[r][k].base + 1
            /\ msgs[r][Len(msgs[r])] = returned[r][k].m

\* both requests have returned success, and the stored list holds the second
\* message and not the first
C10_Witness ==
    \E r \in Rooms :
        LET k == Len(returned[r]) IN
        /\ k >= 2 /\ returned[r][k].base = returned[r][k - 1].base
        /\ Contains(msgs[r], returned[r][k].m)
        /\ ~Contains(msgs[r], returned[r][k - 1].m)
        /\ Len(msgs[r]) < MaxMessages

\* the keys whose stored value this step creates or changes
Written == { k \in DOMAIN kv' : k \notin DOMAIN kv \/ kv'[k] # kv[k] }

\* the one key the handler invocation p is about to write
KeyOf(p) ==
    IF req[p].kind = "send"
    THEN MessagesKey(req[p].args.roomId)
    ELSE UsersKey(req[p].args.roomId)

\* every message of a successful messages response was sent to the room asked for
ListedOnlyOwn ==
    Listed => \A i \in 1..Len(last.body) :
                  Contains(History(last.args.roomId), last.body[i])

\* C11: a step of a handler creates or changes no key other than the one of
\* the room its request names (the membership list for join-room, leave-room
\* and active-users, the message log for send-message), so the lists of every
\* other room stay as they were; and messages returns for a room only
\* messages that were sent to that room.
C11_RoomIsolation ==
    [][ /\ \A k \in Written :
              \E p \in Procs : req[p].pc = "set" /\ req'[p].pc = "idle" /\ k = KeyOf(p)
        /\ ListedOnlyOwn' ]_vars

\* a message was sent to "random" and the list then asked for "general" holds
\* the message of "general" and not that one
C11_Witness ==
    /\ Listed /\ last.args.roomId = "general"
    /\ Len(last.body) = 1
    /\ Len(returned["random"]) = 1
    /\ msgs["random"] = <<returned["random"][1].m>>
    /\ ~Contains(last.body, returned["random"][1].m)
    /\ users["general"] # <<>>

\* the ChatRoom of user u for room r is open: its join-room has been answered
\* with success, no leave-room has been issued since, and nothing of the user
\* is in flight
InRoom(r, u) ==
    /\ chat[u] = "open"
    /\ lastOp[r][u] = "join"
    /\ \A p \in Procs :
          ~(req[p].kind \in {"join", "leave"} /\ req[p].args.roomId = r
              /\ req[p].args.userId = u)

\* C12: every list active-users returns for a room names every user whose
\* ChatRoom for that room is open at that moment (the calls on the room made
\* one after the other).
C12_LivePresence ==
    LET r == last.args.roomId IN
    ListedActive /\ serialU[r] =>
        \A u \in UserIds : InRoom(r, u) => EntriesOf(last.body, u) # <<>>

\* C13: a handler whose kv.get or kv.set throws answers 500 with no success
\* body, writes nothing and is over (no retry, no further write): a request
\* that ends at its store write either has written its value and answers
\* 200, or has left the store as it was and answers 500; a request that ends
\* on arrival has written nothing, and answers 200 only for messages, with
\* the stored list. So an active-users call whose eviction write fails
\* returns no list.
C13_FailureIsError ==
    [][ /\ \A p \in Procs : (req[p].pc = "set" /\ req'[p].pc = "idle") =>
              \/ /\ last'.status = 200
                 /\ KeyOf(p) \in DOMAIN kv' /\ kv'[KeyOf(p)] = req[p].out
              \/ /\ last'.status = 500 /\ last'.body = <<>>
                 /\ last'.kind = req[p].kind
                 /\ kv' = kv
        /\ (reqCount' # reqCount) =>
              /\ kv' = kv
              /\ req' = req =>
                    \/ last'.status \in {400, 500} /\ last'.body = <<>>
                    \/ /\ last'.kind = "messages" /\ last'.status = 200
                       /\ last'.body = msgs[last'.args.roomId] ]_vars

\* the eviction write of an active-users call has failed: the call is answered
\* 500 and the stale entry is still stored
C13_Witness ==
    /\ last.kind = "active" /\ last.status = 500 /\ last.body = <<>>
    /\ last.t >= FiveMinutes
    /\ \E i \in 1..Len(users[last.args.roomId]) :
          users[last.args.roomId][i].joinedAt <= last.t - FiveMinutes
    /\ \A p \in Procs : req[p].pc = "idle"

\* C14: once 'rooms' holds a value no step changes or removes it, and the
\* only step that creates it is the kv.set of an initializeRooms whose kv.get
\* found the key absent; this with startups that overlap each other and the
\* calls of every endpoint.
C14_CatalogWrittenOnce ==
    [][ /\ RoomsKey \in DOMAIN kv =>
              RoomsKey \in DOMAIN kv' /\ kv'[RoomsKey] = kv[RoomsKey]
        /\ (RoomsKey \notin DOMAIN kv /\ RoomsKey \in DOMAIN kv') =>
              /\ \E p \in Procs :
                    /\ req[p].kind = "init" /\ req[p].pc = "setRooms"
                    /\ req'[p].pc = "idle"
              /\ kv'[RoomsKey] = DefaultRooms ]_vars

\* a startup that found no catalog is about to write one while the store
\* already holds the catalog another startup wrote
C14_Witness ==
    /\ RoomsKey \in DOMAIN kv /\ kv[RoomsKey] = DefaultRooms
    /\ \E p \in Procs : req[p].kind = "init" /\ req[p].pc = "setRooms"

\* the message m of room r has, after this step, at least 100 messages sent
\* to the room after it
PushedPastCap(r, m) ==
    \E j \in 1..Len(History(r)') :
        History(r)'[j] = m /\ Len(History(r)') - j >= MaxMessages

\* C15 as stated: every message of a room's stored log is, after any step,
\* still in the log with all its fields, unless at least 100 messages sent
\* after it have pushed it past the cap.
C15_OnlyTruncationDestroys ==
    [][ \A r \in Rooms :
            \/ msgs[r]' = msgs[r]
            \/ \A i \in 1..Len(msgs[r]) :
                  \/ Contains(msgs[r]', msgs[r][i])
                  \/ PushedPastCap(r, msgs[r][i]) ]_vars

\* C15, amended: the same, for a room whose send-message requests have not
\* overlapped; a send that overlaps another can remove the other's message
\* by writing back the list it loaded before that message was stored.
C15_DestroyedByTruncationOrOverlap ==
    [][ \A r \in Rooms :
            \/ msgs[r]' = msgs[r]
            \/ ~serialM[r]'
            \/ \A i \in 1..Len(msgs[r]) :
                  \/ Contains(msgs[r]', msgs[r][i])
                  \/ PushedPastCap(r, msgs[r][i]) ]_vars

\* sends made one after the other to a full log have pushed out its two
\* oldest messages and nothing else
C15_Witness ==
    \E r \in Rooms :
        /\ serialM[r] /\ Len(returned[r]) = 2
        /\ msgs[r] = SubSeq(History(r), 3, MaxMessages + 2)

\* a join-room of user u for room r completes with this step
JoinCompletes(r, u) ==
    \E p \in Procs :
        /\ req[p].kind = "join" /\ req[p].pc = "set"
        /\ req[p].args.roomId = r /\ req[p].args.userId = u
        /\ req'[p].pc = "idle" /\ last'.status = 200

\* the stored list of room r holds one entry of user u before and after this
\* step, and its joinedAt does not decrease
OneEntryNotOlder(r, u) ==
    /\ Len(EntriesOf(users[r]', u)) = 1
    /\ EntriesOf(users[r], u) # <<>> =>
          /\ Len(EntriesOf(users[r], u)) = 1
          /\ EntriesOf(users[r]', u)[1].joinedAt >= EntriesOf(users[r], u)[1].joinedAt

\* C16 as stated: every join-room that completes, overlapping ones included,
\* leaves exactly one stored entry for its user, whose joinedAt is not below
\* the one stored before.
C16_JoinedAtNeverDecreases ==
    [][ \A r \in Rooms, u \in UserIds :
            JoinCompletes(r, u) => OneEntryNotOlder(r, u) ]_vars

\* C16, amended: every join-room that completes leaves exactly one stored
\* entry for its user; its joinedAt is not below the one stored before when
\* the calls on the room did not overlap.
C16_OneEntryAdvancingWhenSerial ==
    [][ \A r \in Rooms, u \in UserIds :
            JoinCompletes(r, u) =>
                /\ Len(EntriesOf(users[r]', u)) = 1
                /\ serialU[r] => OneEntryNotOlder(r, u) ]_vars

\* a user has announced twice, one call after the other, and the one stored
\* entry carries the later time
C16_Witness ==
    \E r \in Rooms, u \in UserIds :
        /\ serialU[r] /\ anns[r][u] = 2 /\ lastOp[r][u] = "join"
        /\ last.kind = "join" /\ last.status = 200 /\ last.args.userId = u
        /\ Len(EntriesOf(last.loaded, u)) = 1
        /\ Len(EntriesOf(users[r], u)) = 1
        /\ EntriesOf(users[r], u)[1].joinedAt > EntriesOf(last.loaded, u)[1].joinedAt

\* a leave-room of user u for room r, past its validation, ends with this step
LeaveEnds(r, u) ==
    \E p \in Procs :
        /\ req[p].kind = "leave" /\ req[p].pc = "set"
        /\ req[p].args.roomId = r /\ req[p].args.userId = u
        /\ req'[p].pc = "idle"

\* C17: a leave-room for a user who has no entry in the room's list (the list
\* may not be stored at all) is answered with success unless the store
\* fails, and the list active-users would load is the same after it as
\* before; so a second leave-room after a first changes nothing (the calls on
\* the room made one after the other).
C17_WithdrawIdempotent ==
    [][ \A r \in Rooms, u \in UserIds :
            (LeaveEnds(r, u) /\ serialU[r] /\ EntriesOf(users[r], u) = <<>>) =>
                /\ users[r]' = users[r]
                /\ last'.kind = "leave"
                /\ last'.status = 200 \/ (last'.status = 500 /\ kv' = kv) ]_vars

\* u1 was a member; a first leave-room removed the entry and a second one,
\* made after it, found none and was answered with success
C17_Witness ==
    LET r == last.args.roomId IN
    /\ last.kind = "leave" /\ last.status = 200 /\ last.args.userId = "u1"
    /\ serialU[r] /\ reqCount = 2 /\ now < FiveMinutes
    /\ anns[r]["u1"] = 1
    /\ last.loaded = <<>>
    /\ UsersKey(r) \in DOMAIN kv /\ kv[UsersKey(r)] = <<>>

\* C18: a messages call writes nothing; it answers with the list stored for
\* the room, whole and in order, and with the empty list when nothing is
\* stored for the room (or with 500 when the store fails).
C18_ListReturnsStored ==
    [][ (reqCount' # reqCount /\ req' = req /\ last'.kind = "messages") =>
            /\ kv' = kv
            /\ last'.status \in {200, 500}
            /\ last'.status = 200 =>
                  /\ last'.body = msgs[last'.args.roomId]
                  /\ MessagesKey(last'.args.roomId) \notin DOMAIN kv =>
                        last'.body = <<>> ]_vars

\* the list asked for after a message with an image was sent: it is the
\* stored list, image message included
C18_Witness ==
    /\ Listed /\ reqCount = 2
    /\ Len(last.body) = 1 /\ last.body[1].imageUrl = "img"
    /\ last.body = msgs[last.args.roomId]

\* C19: the message a successful send-message returns has the id
\* "<t>-<userId>" with <t> the value of its own timestamp field.
C19_IdTimeIsTimestamp ==
    (last.kind = "send" /\ last.status = 200) =>
        last.body[1].id = <<last.body[1].timestamp, last.body[1].userId>>

\* C20: when a join-room has answered success, the stored list is the list
\* that request loaded with its own entry put at the end, whatever was
\* written between its load and its write: so of two overlapping joins of
\* two users that loaded the same list, the stored list holds the entry of
\* the later writer only.
C20_LastWriterWins ==
    (last.kind = "join" /\ last.status = 200) =>
        users[last.args.roomId] =
            JoinedUsers(last.loaded, last.args.userId, last.args.username, last.t)

\* two users have each announced once in a room that held no list, both calls
\* were answered with success, nothing else was called, and the stored list
\* holds one of the two users
C20_Witness ==
    \E r \in Rooms :
        /\ anns[r]["u1"] = 1 /\ anns[r]["u2"] = 1
        /\ lastOp[r]["u1"] = "join" /\ lastOp[r]["u2"] = "join"
        /\ reqCount = 2 /\ \A p \in Procs : req[p].pc = "idle"
        /\ last.kind = "join" /\ last.status = 200 /\ last.loaded = <<>>
        /\ Len(users[r]) = 1

\* C21: in every reachable state, under a clock that never goes back, the
\* timestamps of the messages stored for a room are non-decreasing in list
\* order, also when send-message requests have overlapped.
C21_TimestampsInListOrder ==
    \A r \in Rooms : \A i \in 1..(Len(msgs[r]) - 1) :
        msgs[r][i].timestamp <= msgs[r][i + 1].timestamp

\* overlapping sends have written the log that 100 sequential sends had left,
\* the later-stamped of them included
C21_Witness ==
    /\ ~serialM["general"]
    /\ verM["general"] > seed["general"]
    /\ Len(msgs["general"]) = MaxMessages
    /\ msgs["general"][MaxMessages].timestamp > MaxMessages + 1
    /\ \A p \in Procs : req[p].pc = "idle"
    /\ reqCount = MaxReqs

\* an entry of the list is stale at time t: joinedAt is five minutes old or more
HasStale(list, t) == \E i \in DOMAIN list : list[i].joinedAt <= t - FiveMinutes

\* C22: active-users issues the write of the membership list if and only if at
\* least one entry it loaded is stale; the write stores the loaded list without
\* its stale entries; a request that loaded only fresh entries, an empty list
\* or no list answers with the loaded list and leaves the store as it is.
C22_WritesBackIffStale ==
    [][\A p \in Procs : req[p].kind = "active" /\ req'[p] # req[p] =>
          IF req[p].pc = "compute"
          THEN /\ kv' = kv
               /\ req'[p].pc = "set" <=> HasStale(req[p].loaded, now)
               /\ req'[p].pc = "set" =>
                     /\ Len(req'[p].out) < Len(req[p].loaded)
                     /\ ~HasStale(req'[p].out, now)
               /\ req'[p].pc # "set" =>
                     /\ req'[p].pc = "idle"
                     /\ last'.kind = "active" /\ last'.status = 200
                     /\ last'.body = req[p].loaded
          ELSE /\ req[p].pc = "set" /\ HasStale(req[p].loaded, req[p].t)
               /\ \/ kv' = kv /\ last'.status = 500
                  \/ /\ kv' = (UsersKey(req[p].args.roomId) :> req[p].out) @@ kv
                     /\ last'.status = 200]_vars

\* an active-users request found the one stored entry stale and has written
\* the empty list
C22_Witness ==
    /\ ListedActive
    /\ Len(last.loaded) = 1 /\ last.body = <<>>
    /\ UsersKey("general") \in DOMAIN kv /\ users["general"] = <<>>
    /\ lastOp["general"]["u1"] = "join"

\* C23: every message that ChatRoom.sendMessage has sent and the log stores
\* with the placeholder as its body carries an image: its imageUrl is a
\* non-empty string.
C23_PlaceholderHasImage ==
    \A i \in DOMAIN msgs["general"] :
        msgs["general"][i].message = Placeholder =>
            ~Falsy(msgs["general"][i].imageUrl)

\* the fields a request of each kind must carry
RequiredFields(kind) ==
    CASE kind = "join" -> {"roomId", "username", "userId"}
      [] kind = "leave" -> {"roomId", "userId"}
      [] kind = "send" -> {"roomId", "username", "userId", "message"}
      [] OTHER -> {}

FieldMissing(kind, a) ==
    \E f \in RequiredFields(kind) : a[f] \in {Undefined, Null, ""}

\* C24: a join-room, leave-room or send-message request with a required field
\* missing or empty is answered 400 in the step in which it arrives, without a
\* handler invocation that has read the store being left behind and with the
\* store (membership lists and message logs) unchanged; only requests with
\* every required field get as far as kv.get.
C24_InvalidRequestTouchesNothing ==
    [][/\ \A p \in Procs : ~FieldMissing(req'[p].kind, req'[p].args)
       /\ (/\ reqCount' = reqCount + 1
           /\ req' = req
           /\ FieldMissing(last'.kind, last'.args))
          => /\ last'.status = 400
             /\ kv' = kv
             /\ last'.loaded = <<>>]_vars

\* a join-room request without a username has been answered 400 while the
\* room holds its member and its message
C24_Witness ==
    /\ last.kind = "join" /\ last.status = 400
    /\ last.args.roomId = "general" /\ last.args.userId = "u2"
    /\ last.args.username = ""
    /\ Len(users["general"]) = 1 /\ Len(msgs["general"]) = 1
    /\ reqCount = 1

\* the entries of the users other than u, in list order
OthersOf(list, u) == SelectSeq(list, LAMBDA e : e.userId # u)

\* C25: the list a join-room or leave-room request of user u writes holds the
\* entries of every other user exactly as the request loaded them, stale ones
\* included; when the requests on the room have not overlapped, the entries of
\* the other users in the store are therefore the same before and after.
C25_OthersEntriesKept ==
    [][\A p \in Procs, r \in Rooms, u \in UserIds :
          (/\ req[p].kind \in {"join", "leave"} /\ req[p].pc = "set"
           /\ req[p].args.roomId = r /\ req[p].args.userId = u
           /\ req'[p].pc = "idle" /\ last'.status = 200)
          => /\ OthersOf(kv'[UsersKey(r)], u) = OthersOf(req[p].loaded, u)
             /\ serialU[r] => OthersOf(kv'[UsersKey(r)], u) = OthersOf(users[r], u)]_vars

\* u2 has announced in a room whose stored entry of u1 is stale, and the
\* stale entry is still stored
C25_Witness ==
    /\ last.kind = "join" /\ last.status = 200 /\ last.args.userId = "u2"
    /\ serialU["general"]
    /\ Len(users["general"]) = 2
    /\ users["general"][1].userId = "u1"
    /\ users["general"][1].joinedAt <= last.t - FiveMinutes

\* the eviction write of the active-users request p on room r takes effect
EvictionWrites(p, r) ==
    /\ req[p].kind = "active" /\ req[p].pc = "set" /\ req[p].args.roomId = r
    /\ req'[p].pc = "idle" /\ last'.status = 200

\* the eviction write leaves the presence changes made so far in place: a user
\* who has no entry gets none, and an entry that is fresh for the request
\* stays
EvictionKeepsChanges(p, r) ==
    /\ \A u \in UserIds :
          EntriesOf(users[r], u) = <<>> => EntriesOf(kv'[UsersKey(r)], u) = <<>>
    /\ \A i \in DOMAIN users[r] :
          users[r][i].joinedAt > req[p].t - FiveMinutes =>
             \E j \in DOMAIN kv'[UsersKey(r)] : kv'[UsersKey(r)][j] = users[r][i]

C27_JoinNotAfterLeave ==
    [][\A p \in Procs, u \in UserIds :
          (/\ req[p].kind = "join" /\ req[p].pc = "set"
           /\ req[p].args.userId = u
           /\ req'[p].pc = "idle" /\ last'.status = 200)
          => ~(chat[u] = "closed" /\ lastOp["general"][u] = "leave")]_vars

\* the profile stored by the successful signup of the n-th request
Profile(n) == kv[UserKey(AuthId(n))]

\* C28: whatever the interleaving of signup requests (under different e-mail
\* addresses), no two of them succeed with usernames that are equal once
\* lowercased: the stored profiles have distinct lowercased usernames.
C28_OneSignupPerUsername ==
    \A i, j \in 1..MaxReqs :
        (/\ i # j
         /\ UserKey(AuthId(i)) \in DOMAIN kv /\ UserKey(AuthId(j)) \in DOMAIN kv
         /\ Profile(i).email # Profile(j).email)
        => ToLowerCase(Profile(i).username) # ToLowerCase(Profile(j).username)

\* C29: the display never goes back to an older snapshot: no response to
\* fetchMessages that the server sent before the one displayed is applied
\* after it and takes off the display a message the server log still holds.
C29_DisplayNeverRegresses ==
    [][\A i \in DOMAIN ui.messages :
          (/\ ui'.shown < ui.shown
           /\ \E k \in DOMAIN msgs["general"] : msgs["general"][k] = ui.messages[i])
          => \E j \in DOMAIN ui'.messages : ui'.messages[j] = ui.messages[i]]_vars

\* C30: sendMessage discards the draft (the input text and the selected image)
\* only when send-message has accepted the message: while a send is under way
\* the draft changes only after a response with status 200.
C30_DraftKeptOnError ==
    [][(/\ ui.sending
        /\ \/ ui'.inputMessage # ui.inputMessage
           \/ ui'.selectedImage # ui.selectedImage)
       => (ui.pc = "answered" /\ ui.status = 200)]_vars

====
